---- MODULE Spec2Model ----
(***************************************************************************)
(* Job aggregation pipeline: the request handler search_multi_jobs, the    *)
(* orchestrator scrape_jobs_multi / scrape_company, the enrichment         *)
(* (_extract_experience, enrich_jobs_with_match), the persistence          *)
(* save_jobs_to_db over the jobs table, and the scheduled cycle            *)
(* job_scraper_task / run_scraper.                                         *)
(*                                                                         *)
(* Python dicts are functions with a string domain, so "key in dict" is    *)
(* k \in DOMAIN d and dict.get(k, default) is Get(d, k, default).          *)
(* Texts (title, description) are sequences of tokens; None of an optional *)
(* integer is the value None below.                                        *)
(***************************************************************************)
EXTENDS Integers, Sequences, FiniteSets, TLC

\* ------------------------------------------------------------------ bounds
\* phrases a description is made of, and the largest user_years, when one
\* call of enrich_jobs_with_match is followed on its own
MaxPhrases == 2
MaxYears == 3

\* number of requests and scheduled cycles of one behaviour, on top of the
\* earlier run that left the rows the table starts with
MaxCalls == 1

\* calls of scrape_amazon_jobs in progress at once, each made by its own
\* aggregate call, when the sessions are followed statement by statement
MaxFetches == 2

\* calls of save_jobs_to_db in progress at once, each with its own session
MaxWriters == 2

\* calls of start_scheduler and shutdown_scheduler in one process, and firings
\* of the cron trigger, when the scheduler is followed on its own
MaxLifeCalls == 8
MaxFired == 2

\* -------------------------------------------------------- program constants
USER_YEARS == 2
SELENIUM_COMPANIES == {"microsoft", "amazon"}
COMPANIES == <<"zoho", "google", "microsoft", "amazon">>
\* retries of _create_driver_with_retry
Retries == 3

\* None of Optional[int] (experience_min, experience_max): no integer the code
\* can produce, since \d+ never yields a negative number.
None == -1

\* ------------------------------------------------------------------ texts
Num(n) == [t |-> "num", n |-> n]
W(s) == [t |-> s, n |-> 0]

\* str.lower() on the source names a request can carry
Lower(s) ==
    CASE s = "Zoho" -> "zoho"
      [] s = "Google" -> "google"
      [] s = "Amazon" -> "amazon"
      [] s = "Microsoft" -> "microsoft"
      [] OTHER -> s

\* dict.get(key, default)
Get(d, k, default) == IF k \in DOMAIN d THEN d[k] ELSE default

\* the least element of a non-empty set of integers
Min(S) == CHOOSE x \in S : \A y \in S : x <= y

\* ------------------------------------------------- enrichment.py: patterns
\* positions at which each compiled pattern matches the token text
IsT(text, i, tok) == i <= Len(text) /\ text[i].t = tok

YearsAt(text, i) == IsT(text, i, "years")

\* RANGE_RE: (\d+)\s*[-]\s*(\d+)\s*(?:\+?\s*)?(?:years?|yrs?)
RANGE_RE(text) ==
    { i \in 1..Len(text) :
        /\ IsT(text, i, "num") /\ IsT(text, i + 1, "-") /\ IsT(text, i + 2, "num")
        /\ \/ YearsAt(text, i + 3)
           \/ IsT(text, i + 3, "+") /\ YearsAt(text, i + 4) }

\* OR_MORE_RE: (\d+)\s*(?:\+|\bor more\b)\s*(?:years?|yrs?)
OR_MORE_RE(text) ==
    { i \in 1..Len(text) :
        /\ IsT(text, i, "num")
        /\ IsT(text, i + 1, "+") \/ IsT(text, i + 1, "ormore")
        /\ YearsAt(text, i + 2) }

\* SINGLE_RE: (?:at least|minimum|...)?\s*(\d+)\+?\s*(?:years?|yrs?)
\* the prefix is optional, so a match is decided by the number alone
SINGLE_RE(text) ==
    { i \in 1..Len(text) :
        /\ IsT(text, i, "num")
        /\ \/ YearsAt(text, i + 1)
           \/ IsT(text, i + 1, "+") /\ YearsAt(text, i + 2) }

\* UP_TO_RE: (?:up to|upto)\s*(\d+)\s*(?:years?|yrs?)
UP_TO_RE(text) ==
    { i \in 1..Len(text) :
        IsT(text, i, "upto") /\ IsT(text, i + 1, "num") /\ YearsAt(text, i + 2) }

ENTRY_LEVEL_RE(text) == { i \in 1..Len(text) : text[i].t = "entry" }

SENIORITY_RE(text) == { i \in 1..Len(text) : text[i].t = "senior" }

\* the seniority keywords are looked for before the numbers, and the flag
\* stays set when a number is found
extract_experience_senior_first(text) ==
    LET entry == text # <<>> /\ ENTRY_LEVEL_RE(text) # {}
        senior == text # <<>> /\ SENIORITY_RE(text) # {}
        res(mn, mx) ==
            [min |-> mn, max |-> mx, entry_level |-> entry, senior |-> senior]
    IN  IF text = <<>> THEN res(None, None)
        ELSE IF RANGE_RE(text) # {}
             THEN LET i == Min(RANGE_RE(text))
                  IN  res(text[i].n, text[i + 2].n)
        ELSE IF OR_MORE_RE(text) # {}
             THEN res(text[Min(OR_MORE_RE(text))].n, None)
        ELSE IF SINGLE_RE(text) # {}
             THEN res(text[Min(SINGLE_RE(text))].n, None)
        ELSE IF UP_TO_RE(text) # {}
             THEN res(0, text[Min(UP_TO_RE(text)) + 1].n)
        ELSE res(None, None)

\* the or-more pattern is searched before the range pattern
extract_experience_or_more_first(text) ==
    LET entry == text # <<>> /\ ENTRY_LEVEL_RE(text) # {}
        res(mn, mx, senior) ==
            [min |-> mn, max |-> mx, entry_level |-> entry, senior |-> senior]
    IN  IF text = <<>> THEN res(None, None, FALSE)
        ELSE IF OR_MORE_RE(text) # {}
             THEN res(text[Min(OR_MORE_RE(text))].n, None, FALSE)
        ELSE IF RANGE_RE(text) # {}
             THEN LET i == Min(RANGE_RE(text))
                  IN  res(text[i].n, text[i + 2].n, FALSE)
        ELSE IF SINGLE_RE(text) # {}
             THEN res(text[Min(SINGLE_RE(text))].n, None, FALSE)
        ELSE IF UP_TO_RE(text) # {}
             THEN res(0, text[Min(UP_TO_RE(text)) + 1].n, FALSE)
        ELSE res(None, None, SENIORITY_RE(text) # {})

\* _extract_experience(text) -> (min_years, max_years, flags)
extract_experience(text) ==
    LET entry == text # <<>> /\ ENTRY_LEVEL_RE(text) # {}
        res(mn, mx, senior) ==
            [min |-> mn, max |-> mx, entry_level |-> entry, senior |-> senior]
    IN  IF text = <<>> THEN res(None, None, FALSE)
        ELSE IF RANGE_RE(text) # {}
             THEN LET i == Min(RANGE_RE(text))
                  IN  res(text[i].n, text[i + 2].n, FALSE)
        ELSE IF OR_MORE_RE(text) # {}
             THEN res(text[Min(OR_MORE_RE(text))].n, None, FALSE)
        ELSE IF SINGLE_RE(text) # {}
             THEN res(text[Min(SINGLE_RE(text))].n, None, FALSE)
        ELSE IF UP_TO_RE(text) # {}
             THEN res(0, text[Min(UP_TO_RE(text)) + 1].n, FALSE)
        ELSE res(None, None, SENIORITY_RE(text) # {})

\* a match_reason: the message and the numbers formatted into it
Reason(msg, a, b) == [msg |-> msg, a |-> a, b |-> b]

\* the decision without the branch of line 73
DecideWithoutNumericRule(e, user_years) ==
    IF e.entry_level
    THEN [match |-> user_years >= 0,
          reason |-> Reason("Entry-level / fresher role", 0, 0)]
    ELSE IF e.senior /\ e.min = None /\ user_years <= 2
    THEN [match |-> FALSE,
          reason |-> Reason("Senior-level keywords detected", 0, 0)]
    ELSE [match |-> TRUE,
          reason |-> IF e.min # None
                     THEN IF e.max # None /\ e.max # 0
                          THEN Reason("Matches range {a}-{b} years", e.min, e.max)
                          ELSE Reason("Minimum {a} years - OK", e.min, 0)
                     ELSE Reason("No explicit experience requirement found", 0, 0)]

\* the decision with the branches of lines 70 and 73 the other way round
DecideNumericFirst(e, user_years) ==
    IF e.min # None /\ e.min > user_years
    THEN [match |-> FALSE,
          reason |-> Reason("Requires {a}+ years; user has {b}", e.min, user_years)]
    ELSE IF e.entry_level
    THEN [match |-> user_years >= 0,
          reason |-> Reason("Entry-level / fresher role", 0, 0)]
    ELSE IF e.senior /\ e.min = None /\ user_years <= 2
    THEN [match |-> FALSE,
          reason |-> Reason("Senior-level keywords detected", 0, 0)]
    ELSE [match |-> TRUE,
          reason |-> IF e.min # None
                     THEN IF e.max # None /\ e.max # 0
                          THEN Reason("Matches range {a}-{b} years", e.min, e.max)
                          ELSE Reason("Minimum {a} years - OK", e.min, 0)
                     ELSE Reason("No explicit experience requirement found", 0, 0)]

\* the decision of enrich_jobs_with_match for one job
Decide(e, user_years) ==
    IF e.entry_level
    THEN [match |-> user_years >= 0,
          reason |-> Reason("Entry-level / fresher role", 0, 0)]
    ELSE IF e.min # None /\ e.min > user_years
    THEN [match |-> FALSE,
          reason |-> Reason("Requires {a}+ years; user has {b}", e.min, user_years)]
    ELSE IF e.senior /\ e.min = None /\ user_years <= 2
    THEN [match |-> FALSE,
          reason |-> Reason("Senior-level keywords detected", 0, 0)]
    ELSE [match |-> TRUE,
          reason |-> IF e.min # None
                     THEN IF e.max # None /\ e.max # 0
                          THEN Reason("Matches range {a}-{b} years", e.min, e.max)
                          ELSE Reason("Minimum {a} years - OK", e.min, 0)
                     ELSE Reason("No explicit experience requirement found", 0, 0)]

\* the loop builds a new dict of the keys it knows instead of assigning
\* into the job
EnrichJobRebuilt(job, user_years) ==
    LET text_blob == Get(job, "title", <<>>)
        e == extract_experience(text_blob)
        d == Decide(e, user_years)
    IN  [experience_min |-> e.min, experience_max |-> e.max,
         match |-> d.match, match_reason |-> d.reason,
         title |-> Get(job, "title", <<>>), apply_url |-> Get(job, "apply_url", "")]

\* one iteration of the loop of enrich_jobs_with_match: the job dict with the
\* four enrichment keys set
EnrichJob(job, user_years) ==
    LET text_blob == Get(job, "title", <<>>) \o Get(job, "description", <<>>)
        e == extract_experience(text_blob)
        d == Decide(e, user_years)
    IN  [experience_min |-> e.min, experience_max |-> e.max,
         match |-> d.match, match_reason |-> d.reason] @@ job

\* enrich_jobs_with_match(jobs, user_years)
enrich_jobs_with_match(jobs, user_years) ==
    [i \in 1..Len(jobs) |-> EnrichJob(jobs[i], user_years)]

\* ------------------------------------------------------- the jobs table
\* Python truthiness of a title (a text) and of an apply_url (a string)
HasText(job, k) == k \in DOMAIN job /\ job[k] # <<>>
HasStr(job, k) == k \in DOMAIN job /\ job[k] # ""

\* the test of line 79 without its second half
StorableTitleOnly(job) == HasText(job, "title")

\* save_jobs_to_db, the test of line 79: the item is stored
Storable(job) == HasText(job, "title") /\ HasStr(job, "apply_url")

\* Job.match is a String column: the boolean is stored as its text
BoolToText(b) == IF b THEN "true" ELSE "false"

\* the values of insert(Job).values(...) and of set_={...}
Values(job) ==
    [company |-> Get(job, "company", ""),
     title |-> Get(job, "title", <<>>),
     location |-> Get(job, "location", ""),
     description |-> Get(job, "description", <<>>),
     experience_min |-> Get(job, "experience_min", 0),
     experience_max |-> Get(job, "experience_max", 0),
     match |-> BoolToText(Get(job, "match", FALSE)),
     match_reason |-> Get(job, "match_reason", Reason("", 0, 0))]

\* a new row: Job.id from the sequence, created_at from server_default now()
NewRow(job, id, now) ==
    [id |-> id, apply_url |-> job.apply_url, created_at |-> now] @@ Values(job)

\* created_at listed in set_ as well: the update refreshes it
UpdatedRowTouched(r, job) ==
    [id |-> r.id, apply_url |-> r.apply_url, created_at |-> r.created_at + 1]
        @@ Values(job)

\* on_conflict_do_update(index_elements=['apply_url'], set_={...}): the row
\* keeps id, apply_url and created_at
UpdatedRow(r, job) ==
    [id |-> r.id, apply_url |-> r.apply_url, created_at |-> r.created_at]
        @@ Values(job)

\* a plain insert on a table without the unique constraint
UpsertInsertOnly(rows, job, id, now) == rows \cup {NewRow(job, id, now)}

\* the insert ... on conflict do update statement applied to the rows
Upsert(rows, job, id, now) ==
    IF \E r \in rows : r.apply_url = job.apply_url
    THEN { IF r.apply_url = job.apply_url THEN UpdatedRow(r, job) ELSE r : r \in rows }
    ELSE rows \cup {NewRow(job, id, now)}

\* ------------------------------------------------- what the sources return
\* a posting as the light adapters build it (job_obj)
Posting(title, description, url) ==
    [title |-> title, location |-> "IN", description |-> description,
     apply_url |-> url]

\* a title that is no str: the JSON of the source carried a number
NotStr == <<[t |-> "notstr", n |-> 0]>>

T_DEV == <<W("w")>>
T_SENIOR == <<W("senior"), W("w")>>
T_INTERN == <<W("entry")>>
D_RANGE == <<Num(5), W("-"), Num(8), W("years")>>
D_PLUS == <<Num(1), W("+"), W("years")>>

\* scrape_zoho_jobs: an error list, a note list, or the matched postings; a
\* posting without an id has apply_url ""
ZohoReturns ==
    { <<[error |-> "Network error fetching Zoho jobs", detail |-> "e"]>>,
      <<[note |-> "No jobs matched the filter"]>>,
      <<Posting(T_DEV, D_RANGE, "z1")>>,
      <<Posting(T_SENIOR, <<>>, "z1"), Posting(T_DEV, <<>>, "")>> }

\* scrape_google_jobs: an error list or the postings; a title is what the
\* JSON carried (line 68), "" or a number included
GoogleReturns ==
    { <<[error |-> "Google jobs fetch failed (status 500)"]>>,
      <<Posting(<<>>, <<>>, "g2"), Posting(T_INTERN, D_PLUS, "g1")>>,
      <<Posting(NotStr, <<>>, "g3")>> }

\* scrape_amazon_jobs once the driver exists: the error list of line 171 or
\* the collected jobs (possibly none); a title can be ""
AmazonJob(title, url) ==
    [company |-> "Amazon", title |-> title, location |-> "", description |-> <<>>,
     apply_url |-> url]

AmazonReturns ==
    { <<[error |-> "Exception occurred", detail |-> "e", company |-> "Amazon"]>>,
      <<>>,
      <<AmazonJob(<<>>, "a2"), AmazonJob(T_SENIOR, "a1")>> }

\* {"company": name, **job} for job in jobs
WithCompany(name, jobs) ==
    [i \in 1..Len(jobs) |-> jobs[i] @@ [company |-> name]]

\* the request bodies of POST /jobs/search: role and location can be absent
Absent == "None"
Queries ==
    { [role |-> Absent, location |-> Absent], [role |-> "", location |-> ""],
      [role |-> "developer", location |-> Absent],
      [role |-> "", location |-> "Bangalore"] }

RequestedCompanies ==
    { <<>>, <<"invalid">>, <<"Google", "zoho">>,
      <<"amazon", "zoho">>, <<"microsoft", "invalid", "Amazon">> }

\* not x, for an Optional[str]
Falsy(x) == x = Absent \/ x = ""

\* ------------------------------------------------ scheduler.py: _scheduler
JOB_ID == "daily_midnight_scrape"

\* line 99: no scheduler yet
NoScheduler == [running |-> FALSE, jobs |-> {}]

\* the test of line 103 is missing: every call makes a new scheduler
StartsNewAlways(s) == TRUE

\* lines 103-105 do not return: there is no scheduler or it does not run
StartsNew(s) == ~s.running

\* start_scheduler(): a scheduler that runs is left alone, otherwise a new
\* one gets the daily job and is started
start_scheduler(s) ==
    IF StartsNew(s) THEN [running |-> TRUE, jobs |-> {JOB_ID}] ELSE s

\* shutdown_scheduler()
shutdown_scheduler(s) ==
    IF s.running THEN [s EXCEPT !.running = FALSE] ELSE s

\* the event loop is left as it is
LoopLeftOpen(l) == l

\* job_scraper_task lines 79-83: an open loop is closed; without a loop the
\* test raises and the handler of line 82 passes
CloseLoop(l) == IF l = "open" THEN "closed" ELSE l

\* ------------------------------------------------------------------ state
VARIABLES
    pc,          \* where the one flow of control is
    caller,      \* "api" (search_multi_jobs) or "cycle" (job_scraper_task)
    calls,       \* requests and cycles started so far
    companies,   \* the companies of the call in progress
    query,       \* role and location of the request
    status,      \* per requested company: pending, running, done, failed
    taskRes,     \* per requested company: the list its scrape_company returned
    non_selenium_results, selenium_results,
    h,           \* the position of the loop of line 54 in companies
    attempt,     \* the attempt of _create_driver_with_retry
    driver,      \* a browser session is open
    jobs,        \* the local jobs of scrape_company (amazon)
    combined,    \* the batch scrape_jobs_multi returns
    response,    \* "results" of the response
    outcome,     \* how the last call ended
    db,          \* the committed rows of the jobs table
    db0,         \* the rows when the call in progress started
    idseq,       \* the last value of the sequence of Job.id
    clock,       \* the database clock
    tx,          \* the rows as the open transaction sees them
    saveJobs, saveIdx, saveRet, saveFailed, closed,
    loop,        \* the event loop of job_scraper_task: none, open, closed
    scheduler,   \* _scheduler: whether it runs and the ids of its jobs
    epc,         \* where a call of enrich_jobs_with_match on one job is
    posting,     \* the job dict of that call
    years,       \* its user_years
    inferred,    \* exp_min, exp_max, flags of that call
    fpc,         \* per call of scrape_amazon_jobs: where its _run is
    attempts,    \* attempt of its _create_driver_with_retry
    last_exc,    \* last_exc of it: the attempt whose exception it holds
    drivers,     \* its driver: none, open, closed, quit_failed
    holder,      \* the call that holds SELENIUM_START_LOCK, 0 for none
    cards,       \* the cards find_elements gave it
    card_idx,    \* idx of the loop over the cards
    found,       \* its local jobs
    result,      \* what it returned
    wpc,         \* per call of save_jobs_to_db: where it is
    wbatch,      \* its jobs
    widx,        \* the position of its loop
    wtx,         \* the rows its open transaction has written
    wnow,        \* the time its transaction started
    retired,     \* the schedulers _scheduler named before, oldest first
    lifecalls,   \* calls of start_scheduler and shutdown_scheduler so far
    last_call,   \* the last of them: none, start, shutdown
    fired        \* how often the cron trigger has fired

vars == <<pc, caller, calls, companies, query, status, taskRes,
          non_selenium_results, selenium_results, h, attempt, driver, jobs,
          combined, response, outcome, db, db0, idseq, clock, tx,
          saveJobs, saveIdx, saveRet, saveFailed, closed,
          loop, scheduler, epc, posting, years, inferred,
          fpc, attempts, last_exc, drivers, holder, cards, card_idx, found, result,
          wpc, wbatch, widx, wtx, wnow,
          retired, lifecalls, last_call, fired>>

callVars == <<caller, calls, companies, query, db0>>
taskVars == <<status, taskRes, non_selenium_results>>
heavyVars == <<selenium_results, h, attempt, driver, jobs>>
outVars == <<combined, response, outcome>>
saveVars == <<tx, saveJobs, saveIdx, saveRet, saveFailed, closed>>
storeVars == <<db, idseq, clock>>
schedVars == <<loop, scheduler>>
enrichVars == <<epc, posting, years, inferred>>
sessionVars == <<fpc, attempts, last_exc, drivers, holder, cards, card_idx, found, result>>
writerVars == <<wpc, wbatch, widx, wtx, wnow>>
\* what the pipeline never touches: the variables of the calls followed apart
lifeVars == <<retired, lifecalls, last_call, fired>>
asideVars == <<enrichVars, sessionVars, writerVars, lifeVars>>

Fetches == 1..MaxFetches
Writers == 1..MaxWriters

Slots == 1..Len(companies)
IsHeavy(c) == Lower(c) \in SELENIUM_COMPANIES
LightSlots == { i \in Slots : ~IsHeavy(companies[i]) }
HeavySlots == { i \in Slots : IsHeavy(companies[i]) }
Finished(i) == status[i] \in {"done", "failed"}

\* the table when the process starts: empty, or holding the row an earlier
\* run stored for the zoho posting z1
EarlierRow ==
    NewRow(EnrichJob(Posting(T_DEV, D_RANGE, "z1") @@ [company |-> "Zoho"], USER_YEARS),
           1, 1)

InitialStores == { {}, {EarlierRow} }

\* the process before the application starts
InitPipeline ==
    /\ pc = "startup" /\ loop = "none" /\ scheduler = NoScheduler
    /\ caller = "none" /\ calls = 0
    /\ companies = <<>> /\ query = [role |-> Absent, location |-> Absent]
    /\ status = <<>> /\ taskRes = <<>>
    /\ non_selenium_results = <<>> /\ selenium_results = <<>>
    /\ h = 0 /\ attempt = 0 /\ driver = FALSE /\ jobs = <<>>
    /\ combined = <<>> /\ response = <<>> /\ outcome = "none"
    /\ db \in InitialStores /\ db0 = {}
    /\ idseq = Cardinality(db) /\ clock = Cardinality(db)
    /\ tx = {} /\ saveJobs = <<>> /\ saveIdx = 0 /\ saveRet = "none"
    /\ saveFailed = FALSE /\ closed = TRUE

\* no call of enrich_jobs_with_match is followed on its own
InitEnrichOff ==
    /\ epc = "off" /\ years = USER_YEARS
    /\ posting = [title |-> <<>>, description |-> <<>>]
    /\ inferred = extract_experience(<<>>)

\* no call of scrape_amazon_jobs has started
InitSessions ==
    /\ fpc = [f \in Fetches |-> "idle"]
    /\ attempts = [f \in Fetches |-> 0]
    /\ last_exc = [f \in Fetches |-> 0]
    /\ drivers = [f \in Fetches |-> "none"]
    /\ holder = 0
    /\ cards = [f \in Fetches |-> <<>>]
    /\ card_idx = [f \in Fetches |-> 0]
    /\ found = [f \in Fetches |-> <<>>]
    /\ result = [f \in Fetches |-> <<>>]

\* no call of save_jobs_to_db is followed on its own
InitWriters ==
    /\ wpc = [w \in Writers |-> "idle"]
    /\ wbatch = [w \in Writers |-> <<>>]
    /\ widx = [w \in Writers |-> 0]
    /\ wtx = [w \in Writers |-> {}]
    /\ wnow = [w \in Writers |-> 0]

\* scheduler.py line 99: _scheduler has named no scheduler yet
InitLife ==
    /\ retired = <<>> /\ lifecalls = 0 /\ last_call = "none" /\ fired = 0

Init == InitPipeline /\ InitEnrichOff /\ InitSessions /\ InitWriters /\ InitLife

\* ------------------------------------------------- main.py: the lifespan
\* line 9: the application starts and serves requests from then on
Startup ==
    /\ pc = "startup"
    /\ scheduler' = start_scheduler(scheduler)
    /\ pc' = "idle"
    /\ UNCHANGED <<callVars, taskVars, heavyVars, outVars, storeVars, saveVars,
                   loop, asideVars>>

\* line 15: the application stops
Shutdown ==
    /\ pc = "idle"
    /\ scheduler' = shutdown_scheduler(scheduler)
    /\ pc' = "stopped"
    /\ UNCHANGED <<callVars, taskVars, heavyVars, outVars, storeVars, saveVars,
                   loop, asideVars>>

\* ------------------------------------------------ save_jobs_to_db(jobs)
\* db = SessionLocal(): a session whose transaction starts from the committed
\* rows; ret is where the call returns to
BeginSave(batch, ret) ==
    /\ tx' = db /\ saveJobs' = batch /\ saveIdx' = 1 /\ saveRet' = ret
    /\ saveFailed' = FALSE /\ closed' = FALSE
    /\ clock' = clock + 1
    /\ pc' = "save"

\* the except clause commits what was executed so far
RollbackKeeps(committed, pending) == pending

\* db.rollback(): what is committed once the transaction is rolled back
Rollback(committed, pending) == committed

\* db.commit(): what is committed once the transaction is committed
Commit(committed, pending) == pending

\* save_jobs_to_db as a function of the committed rows when no statement and
\* no commit fails: the loop of line 78, each stored item taking the next
\* value of the sequence
RECURSIVE Applied(_, _, _, _)
Applied(rows, batch, id, now) ==
    IF batch = <<>> THEN rows
    ELSE IF Storable(Head(batch))
         THEN Applied(Upsert(rows, Head(batch), id + 1, now), Tail(batch), id + 1, now)
         ELSE Applied(rows, Tail(batch), id, now)

\* lines 79-81: an item without title or apply_url is skipped
SaveSkip ==
    /\ pc = "save" /\ saveIdx <= Len(saveJobs)
    /\ ~Storable(saveJobs[saveIdx])
    /\ saveIdx' = saveIdx + 1
    /\ UNCHANGED <<pc, callVars, schedVars, asideVars, taskVars, heavyVars, outVars, storeVars,
                   tx, saveJobs, saveRet, saveFailed, closed>>

\* lines 83-109: db.execute(stmt) inside the open transaction
SaveExecute ==
    /\ pc = "save" /\ saveIdx <= Len(saveJobs)
    /\ Storable(saveJobs[saveIdx])
    /\ tx' = Upsert(tx, saveJobs[saveIdx], idseq + 1, clock)
    /\ idseq' = idseq + 1
    /\ saveIdx' = saveIdx + 1
    /\ UNCHANGED <<pc, callVars, schedVars, asideVars, taskVars, heavyVars, outVars, db, clock,
                   saveJobs, saveRet, saveFailed, closed>>

\* lines 112-116: the except and finally clauses
SaveAbort ==
    /\ db' = Rollback(db, tx)
    /\ tx' = Rollback(db, tx)
    /\ saveFailed' = TRUE /\ closed' = TRUE
    /\ pc' = "save_done"
    /\ UNCHANGED <<callVars, schedVars, asideVars, taskVars, heavyVars, outVars, idseq, clock,
                   saveJobs, saveIdx, saveRet>>

\* db.execute(stmt) raises
SaveExecuteFails ==
    /\ pc = "save" /\ saveIdx <= Len(saveJobs)
    /\ Storable(saveJobs[saveIdx])
    /\ SaveAbort

\* line 111 raises
SaveCommitFails ==
    /\ pc = "save" /\ saveIdx > Len(saveJobs)
    /\ SaveAbort

\* line 111, then the finally clause
SaveCommit ==
    /\ pc = "save" /\ saveIdx > Len(saveJobs)
    /\ db' = Commit(db, tx)
    /\ closed' = TRUE
    /\ pc' = "save_done"
    /\ UNCHANGED <<callVars, schedVars, asideVars, taskVars, heavyVars, outVars, idseq, clock,
                   tx, saveJobs, saveIdx, saveRet, saveFailed>>

\* the session is gone once save_jobs_to_db has returned
EndSave ==
    /\ tx' = {} /\ saveJobs' = <<>> /\ saveIdx' = 0 /\ saveRet' = "none"
    /\ saveFailed' = FALSE /\ closed' = TRUE

\* ------------------------------------------------------ the callers
\* a call starts: its arguments and the tasks it will run
StartCall(who, cs, q) ==
    /\ caller' = who /\ calls' = calls + 1 /\ companies' = cs /\ query' = q
    /\ db0' = db
    /\ status' = [i \in 1..Len(cs) |-> "pending"]
    /\ taskRes' = [i \in 1..Len(cs) |-> <<>>]
    /\ UNCHANGED <<non_selenium_results, heavyVars, combined>>

\* the call is over: its frame, its tasks and its result are dropped
EndCall ==
    /\ pc = "returned"
    /\ pc' = "idle" /\ caller' = "none"
    /\ companies' = <<>> /\ query' = [role |-> Absent, location |-> Absent]
    /\ db0' = {}
    /\ status' = <<>> /\ taskRes' = <<>>
    /\ non_selenium_results' = <<>> /\ selenium_results' = <<>>
    /\ h' = 0 /\ attempt' = 0 /\ driver' = FALSE /\ jobs' = <<>>
    /\ combined' = <<>> /\ response' = <<>> /\ outcome' = "none"
    /\ loop' = "none"
    /\ UNCHANGED <<calls, storeVars, saveVars, scheduler, asideVars>>

\* the test written with == "": an absent role or location is not rejected
RejectedEmptyOnly(q) == q.role = "" /\ q.location = ""

\* jobs.py line 23: not request.role and not request.location
Rejected(q) == Falsy(q.role) /\ Falsy(q.location)

\* search_multi_jobs, lines 23-24: the degenerate query
SearchReject ==
    /\ pc = "idle" /\ calls < MaxCalls
    /\ \E cs \in RequestedCompanies, q \in Queries :
        /\ Rejected(q)
        /\ StartCall("api", cs, q)
    /\ response' = <<[note |-> "Please provide role or location"]>>
    /\ outcome' = "ok"
    /\ pc' = "returned"
    /\ UNCHANGED <<storeVars, saveVars, schedVars, asideVars>>

\* search_multi_jobs, line 26: scrape_jobs_multi is entered
SearchAccept ==
    /\ pc = "idle" /\ calls < MaxCalls
    /\ \E cs \in RequestedCompanies, q \in Queries :
        /\ ~Rejected(q)
        /\ StartCall("api", cs, q)
    /\ response' = <<>> /\ outcome' = "none"
    /\ pc' = "gather"
    /\ UNCHANGED <<storeVars, saveVars, schedVars, asideVars>>

\* the cron trigger of the registered job fires
Triggered == scheduler.running /\ JOB_ID \in scheduler.jobs

\* job_scraper_task lines 73-75 -> run_scraper(COMPANIES) -> scrape_jobs_multi
JobScraperTask ==
    /\ pc = "idle" /\ calls < MaxCalls
    /\ Triggered
    /\ StartCall("cycle", COMPANIES, [role |-> "developer", location |-> "Bangalore"])
    /\ loop' = "open"
    /\ response' = <<>> /\ outcome' = "none"
    /\ pc' = "gather"
    /\ UNCHANGED <<storeVars, saveVars, scheduler, asideVars>>

\* job_scraper_task line 73 raises: lines 76-77 log it, run_scraper is not
\* entered and lines 79-83 find no loop to close
NewEventLoopFails ==
    /\ pc = "idle" /\ calls < MaxCalls
    /\ Triggered
    /\ StartCall("cycle", COMPANIES, [role |-> "developer", location |-> "Bangalore"])
    /\ loop' = CloseLoop(loop)
    /\ response' = <<>> /\ outcome' = "caught"
    /\ pc' = "returned"
    /\ UNCHANGED <<storeVars, saveVars, scheduler, asideVars>>

\* --------------------------------- scrape_jobs_multi: the gathered tasks
\* the tasks of asyncio.gather run on one event loop and scrape_company
\* awaits nothing on the zoho and google paths, so a task runs from start to
\* end before the next one starts
MayStart(i) ==
    /\ pc = "gather" /\ i \in LightSlots /\ status[i] = "pending"
    /\ \A j \in LightSlots : j < i => Finished(j)

\* the final branch of scrape_company is never taken: every name that is no
\* heavy adapter is handed to a light adapter
RecognisedAny(c) == TRUE

\* scrape_company lines 16 and 20: the names of the light adapters
Recognised(c) == Lower(c) \in {"zoho", "google"}

\* scrape_company lines 16-22: the adapter is called
LightStart ==
    \E i \in Slots :
        /\ MayStart(i) /\ Recognised(companies[i])
        /\ status' = [status EXCEPT ![i] = "running"]
        /\ UNCHANGED <<pc, callVars, schedVars, asideVars, taskRes, non_selenium_results, heavyVars,
                       outVars, storeVars, saveVars>>

LightResult(c, r) ==
    IF Lower(c) = "zoho" THEN WithCompany("Zoho", r) ELSE WithCompany("Google", r)

\* the adapter returns its list
LightReturn ==
    \E i \in Slots :
        /\ pc = "gather" /\ status[i] = "running"
        /\ \E r \in IF Lower(companies[i]) = "zoho" THEN ZohoReturns ELSE GoogleReturns :
            taskRes' = [taskRes EXCEPT ![i] = LightResult(companies[i], r)]
        /\ status' = [status EXCEPT ![i] = "done"]
        /\ UNCHANGED <<pc, callVars, schedVars, asideVars, non_selenium_results, heavyVars, outVars,
                       storeVars, saveVars>>

\* the adapter raises (an exception the adapter does not catch: zoho line 66
\* or 70 on a blob that is no list of objects, google line 57 on "jobs": null)
LightRaise ==
    \E i \in Slots :
        /\ pc = "gather" /\ status[i] = "running"
        /\ status' = [status EXCEPT ![i] = "failed"]
        /\ UNCHANGED <<pc, callVars, schedVars, asideVars, taskRes, non_selenium_results, heavyVars,
                       outVars, storeVars, saveVars>>

\* scrape_company line 39: no adapter of that name
NotImplemented ==
    \E i \in Slots :
        /\ MayStart(i) /\ ~Recognised(companies[i])
        /\ taskRes' = [taskRes EXCEPT ![i] =
                          <<[company |-> companies[i], error |-> "Scraper not implemented"]>>]
        /\ status' = [status EXCEPT ![i] = "done"]
        /\ UNCHANGED <<pc, callVars, schedVars, asideVars, non_selenium_results, heavyVars, outVars,
                       storeVars, saveVars>>

\* the increasing sequence of the members of a set of slots
RECURSIVE SlotSeq(_)
SlotSeq(S) ==
    IF S = {} THEN <<>> ELSE LET m == Min(S) IN <<m>> \o SlotSeq(S \ {m})

\* the value of await asyncio.gather(*tasks): the results in task order
Gathered(res, slots) == [k \in 1..Len(slots) |-> res[slots[k]]]

\* the loop written over the names of SELENIUM_COMPANIES instead of over the
\* request: amazon before microsoft, whatever the request's order
NextHeavyByName(k) ==
    LET key(i) == (IF Lower(companies[i]) = "amazon" THEN 0 ELSE Len(companies) + 1) + i
        later == { i \in HeavySlots : k = 0 \/ key(i) > key(k) }
    IN  IF later = {} THEN Len(companies) + 1
        ELSE CHOOSE i \in later : \A j \in later : key(i) <= key(j)

\* the next company of the loop of line 54 that passes the test of line 55
NextHeavy(k) ==
    IF \E i \in HeavySlots : i > k
    THEN Min({ i \in HeavySlots : i > k })
    ELSE Len(companies) + 1

\* the gather is not awaited
NotAwaited == TRUE

\* line 50, await: every task of the gather has returned
AllLightDone == \A i \in LightSlots : status[i] = "done"

\* line 50 returns
GatherDone ==
    /\ pc = "gather"
    /\ AllLightDone
    /\ non_selenium_results' = Gathered(taskRes, SlotSeq(LightSlots))
    /\ h' = NextHeavy(0)
    /\ pc' = "heavy"
    /\ UNCHANGED <<callVars, schedVars, asideVars, status, taskRes, selenium_results, attempt, driver,
                   jobs, outVars, storeVars, saveVars>>

\* line 50 raises the exception of a task once every task has run
GatherRaises ==
    /\ pc = "gather"
    /\ \A i \in LightSlots : Finished(i)
    /\ \E i \in LightSlots : status[i] = "failed"

RECURSIVE Flatten(_)
Flatten(ss) == IF ss = <<>> THEN <<>> ELSE Head(ss) \o Flatten(Tail(ss))

\* the two lists added the other way round
CombinedHeavyFirst(light, heavy) == Flatten(heavy \o light)

\* lines 64-65
Combined(light, heavy) == Flatten(light \o heavy)

IsRealJob(j) == "title" \in DOMAIN j

\* enrichment.py lines 63-66: " ".join raises TypeError on a title that is
\* no str
Unjoinable(j) == Get(j, "title", <<>>) = NotStr

\* line 69 raises: a real job of the combined list cannot be enriched
EnrichRaises ==
    /\ pc = "heavy" /\ h > Len(companies)
    /\ LET all == Combined(non_selenium_results, selenium_results)
       IN  \E p \in DOMAIN all : IsRealJob(all[p]) /\ Unjoinable(all[p])

\* scrape_jobs_multi raises: at its line 50 or at its line 69
MultiRaises == GatherRaises \/ EnrichRaises

\* search_multi_jobs has no handler: the request fails
SearchRaises ==
    /\ MultiRaises /\ caller = "api"
    /\ outcome' = "raised" /\ pc' = "returned"
    /\ UNCHANGED <<callVars, schedVars, asideVars, taskVars, heavyVars, combined, response,
                   storeVars, saveVars>>

\* run_scraper lines 32-36: logged, the cycle ends; job_scraper_task lines
\* 78-85
RunScraperCatches ==
    /\ MultiRaises /\ caller = "cycle"
    /\ outcome' = "caught" /\ pc' = "returned"
    /\ loop' = CloseLoop(loop)
    /\ UNCHANGED <<callVars, scheduler, asideVars, taskVars, heavyVars, combined, response,
                   storeVars, saveVars>>

\* ------------------------------- scrape_jobs_multi: the sequential loop
\* line 61: the record of a heavy adapter that raised
ErrorRecord(c, e) == <<[company |-> c, error |-> e]>>

\* the handler leaves the loop instead of going on with the next company
HeavyFailedStops(e) ==
    /\ status' = [status EXCEPT ![h] = "failed"]
    /\ selenium_results' = Append(selenium_results, ErrorRecord(companies[h], e))
    /\ h' = Len(companies) + 1
    /\ pc' = "heavy"

\* lines 59-61, then the next iteration of the loop
HeavyFailed(e) ==
    /\ status' = [status EXCEPT ![h] = "failed"]
    /\ selenium_results' = Append(selenium_results, ErrorRecord(companies[h], e))
    /\ h' = NextHeavy(h)
    /\ pc' = "heavy"

\* line 57 for microsoft: scrape_company is entered
MicrosoftStart ==
    /\ pc = "heavy" /\ h <= Len(companies)
    /\ Lower(companies[h]) = "microsoft"
    /\ status' = [status EXCEPT ![h] = "running"]
    /\ pc' = "ms_import"
    /\ UNCHANGED <<callVars, schedVars, asideVars, taskRes, non_selenium_results, heavyVars, outVars,
                   storeVars, saveVars>>

\* scrape_company line 26: microsoft_scraper defines no
\* scrape_microsoft_jobs_async, the import raises ImportError
MicrosoftImportFails ==
    /\ pc = "ms_import"
    /\ HeavyFailed("cannot import name 'scrape_microsoft_jobs_async'")
    /\ UNCHANGED <<callVars, schedVars, asideVars, taskRes, non_selenium_results, attempt, driver, jobs,
                   outVars, storeVars, saveVars>>

\* line 57 for amazon: scrape_amazon_jobs is entered, _run creates the driver
AmazonStart ==
    /\ pc = "heavy" /\ h <= Len(companies)
    /\ Lower(companies[h]) = "amazon"
    /\ status' = [status EXCEPT ![h] = "running"]
    /\ attempt' = 1
    /\ pc' = "am_driver"
    /\ UNCHANGED <<callVars, schedVars, asideVars, taskRes, non_selenium_results, selenium_results, h,
                   driver, jobs, outVars, storeVars, saveVars>>

\* _create_driver_with_retry: an attempt fails and another one follows
DriverRetry ==
    /\ pc = "am_driver" /\ attempt < Retries
    /\ attempt' = attempt + 1
    /\ UNCHANGED <<pc, callVars, schedVars, asideVars, taskVars, selenium_results, h, driver, jobs,
                   outVars, storeVars, saveVars>>

\* the last attempt fails: raise last_exc, out of scrape_amazon_jobs and
\* scrape_company
DriverGivesUp ==
    /\ pc = "am_driver" /\ attempt = Retries
    /\ HeavyFailed("session not created")
    /\ attempt' = 0
    /\ UNCHANGED <<callVars, schedVars, asideVars, taskRes, non_selenium_results, driver, jobs,
                   outVars, storeVars, saveVars>>

\* webdriver.Chrome(options=options) returns
DriverStarts ==
    /\ pc = "am_driver"
    /\ driver' = TRUE
    /\ attempt' = 0
    /\ pc' = "am_scrape"
    /\ UNCHANGED <<callVars, schedVars, asideVars, taskVars, selenium_results, h, jobs, outVars,
                   storeVars, saveVars>>

\* amazon lines 119-176: the page is read, the driver quits, the list is
\* returned; scrape_company line 36 saves it
AmazonScrape ==
    /\ pc = "am_scrape"
    /\ \E r \in AmazonReturns :
        /\ jobs' = r
        /\ BeginSave(r, "company")
    /\ driver' = FALSE
    /\ UNCHANGED <<callVars, schedVars, asideVars, taskVars, selenium_results, h, attempt, outVars,
                   db, idseq>>

\* scrape_company line 37 and scrape_jobs_multi line 58
CompanyReturns ==
    /\ pc = "save_done" /\ saveRet = "company"
    /\ taskRes' = [taskRes EXCEPT ![h] = jobs]
    /\ selenium_results' = Append(selenium_results, jobs)
    /\ status' = [status EXCEPT ![h] = "done"]
    /\ h' = NextHeavy(h)
    /\ jobs' = <<>>
    /\ pc' = "heavy"
    /\ EndSave
    /\ UNCHANGED <<callVars, schedVars, asideVars, non_selenium_results, attempt, driver,
                   outVars, storeVars>>

\* ---------------------------------- scrape_jobs_multi: lines 63 to 72
\* the list is enriched without the filter of line 68
EnrichEveryRecord(batch) == enrich_jobs_with_match(batch, USER_YEARS)

\* lines 68-69: the dicts of real_jobs are the dicts of combined, and
\* enrich_jobs_with_match changes them in place
EnrichRealJobs(batch) ==
    [i \in 1..Len(batch) |->
        IF IsRealJob(batch[i]) THEN EnrichJob(batch[i], USER_YEARS) ELSE batch[i]]

\* run_scraper lines 39 and 46: the same for the dicts of valid_jobs
EnrichValidJobs(batch) ==
    [i \in 1..Len(batch) |->
        IF Storable(batch[i]) THEN EnrichJob(batch[i], USER_YEARS) ELSE batch[i]]

\* lines 63-70, up to the call of save_jobs_to_db(real_jobs)
Combine ==
    /\ pc = "heavy" /\ h > Len(companies)
    /\ ~EnrichRaises
    /\ LET all == EnrichRealJobs(Combined(non_selenium_results, selenium_results))
       IN  /\ combined' = all
           /\ BeginSave(SelectSeq(all, IsRealJob), "multi")
    /\ UNCHANGED <<callVars, schedVars, asideVars, taskVars, heavyVars, response, outcome, db, idseq>>

\* the batch is given up when the save failed
ReturnedBatchIfSaved(batch, failed) == IF failed THEN <<>> ELSE batch

\* lines 70-72: save_jobs_to_db has returned, whatever became of the save,
\* and combined is returned
ReturnedBatch(batch, failed) == batch

\* the batch is put into the response as it is
ResultsAsReturned(results) == results

\* jobs.py line 28: the response of the request
Results(results) ==
    IF results # <<>> THEN results ELSE <<[note |-> "No jobs found"]>>

\* scrape_jobs_multi line 72, then search_multi_jobs line 28
SearchRespond ==
    /\ pc = "save_done" /\ saveRet = "multi" /\ caller = "api"
    /\ response' = Results(ReturnedBatch(combined, saveFailed))
    /\ outcome' = "ok"
    /\ pc' = "returned"
    /\ EndSave
    /\ UNCHANGED <<callVars, schedVars, asideVars, taskVars, heavyVars, combined, storeVars>>

\* run_scraper lines 38-52: filter, enrich again, save_jobs_to_db(valid_jobs)
RunScraperPersist ==
    /\ pc = "save_done" /\ saveRet = "multi" /\ caller = "cycle"
    /\ LET all == EnrichValidJobs(ReturnedBatch(combined, saveFailed))
       IN  /\ combined' = all
           /\ BeginSave(SelectSeq(all, Storable), "cycle")
    /\ UNCHANGED <<callVars, schedVars, asideVars, taskVars, heavyVars, response, outcome, db, idseq>>

\* run_scraper line 57, job_scraper_task lines 78-85
CycleDone ==
    /\ pc = "save_done" /\ saveRet = "cycle"
    /\ outcome' = "ok"
    /\ pc' = "returned"
    /\ loop' = CloseLoop(loop)
    /\ EndSave
    /\ UNCHANGED <<callVars, scheduler, asideVars, taskVars, heavyVars, combined,
                   response, storeVars>>

Next ==
    \/ Startup \/ Shutdown
    \/ SearchReject \/ SearchAccept \/ JobScraperTask \/ NewEventLoopFails \/ EndCall
    \/ LightStart \/ LightReturn \/ LightRaise \/ NotImplemented
    \/ GatherDone \/ SearchRaises \/ RunScraperCatches
    \/ MicrosoftStart \/ MicrosoftImportFails
    \/ AmazonStart \/ DriverRetry \/ DriverGivesUp \/ DriverStarts \/ AmazonScrape
    \/ CompanyReturns \/ Combine \/ SearchRespond \/ RunScraperPersist \/ CycleDone
    \/ SaveSkip \/ SaveExecute \/ SaveExecuteFails \/ SaveCommitFails \/ SaveCommit

Spec == Init /\ [][Next]_vars

\* a step of the call in progress: the event loop runs a task that is ready,
\* a blocking call or a thread of asyncio.to_thread that was started runs to
\* its end, and save_jobs_to_db runs to its end
CallStep ==
    \/ LightStart \/ LightReturn \/ LightRaise \/ NotImplemented
    \/ GatherDone \/ SearchRaises \/ RunScraperCatches
    \/ MicrosoftStart \/ MicrosoftImportFails
    \/ AmazonStart \/ DriverRetry \/ DriverGivesUp \/ DriverStarts \/ AmazonScrape
    \/ CompanyReturns \/ Combine \/ SearchRespond \/ RunScraperPersist \/ CycleDone
    \/ SaveSkip \/ SaveExecute \/ SaveExecuteFails \/ SaveCommitFails \/ SaveCommit

\* the pipeline when no step of a call in progress is put off for ever
SpecLive == Spec /\ WF_vars(CallStep)

\* ------------------------- enrich_jobs_with_match on one job, step by step
\* the numbers a text can carry: none of experience, one a candidate of
\* MaxYears years reaches, one beyond a working life
Numbers == {0, 3, 75}

\* what a title or description says about experience, and what it says
\* without a pattern matching
Phrases ==
    { <<Num(a), W("-"), Num(b), W("years")>> : a, b \in Numbers }
    \cup { <<Num(a), W("+"), W("years")>> : a \in Numbers }
    \cup { <<Num(a), W("years")>> : a \in Numbers }
    \cup { <<W("upto"), Num(a), W("years")>> : a \in Numbers }
    \cup { <<Num(3), W("ormore"), W("years")>>,
           <<Num(3), W("-"), Num(75), W("+"), W("years")>>,
           <<W("entry")>>, <<W("senior")>>, <<W("w")>>,
           <<Num(75)>>, <<W("years")>> }

\* the texts of at most n phrases
RECURSIVE Texts(_)
Texts(n) ==
    IF n = 0 THEN {<<>>}
    ELSE LET shorter == Texts(n - 1)
         IN  shorter \cup { ph \o t : ph \in Phrases, t \in shorter }

Titles == { <<>>, T_SENIOR, T_INTERN, <<Num(3)>> }

\* lines 63-66: " ".join([title, description])
text_blob(j) == Get(j, "title", <<>>) \o Get(j, "description", <<>>)

\* the job and the user_years the call is made with
InitEnrich ==
    /\ InitPipeline /\ db = {}
    /\ InitSessions /\ InitWriters /\ InitLife
    /\ epc = "start"
    /\ years \in 0..MaxYears
    /\ \E t \in Titles, d \in Texts(MaxPhrases) :
           posting = [title |-> t, description |-> d]
    /\ inferred = extract_experience(<<>>)

pipelineVars ==
    <<pc, callVars, taskVars, heavyVars, outVars, storeVars, saveVars, schedVars>>

\* line 67: exp_min, exp_max, flags = _extract_experience(text_blob)
ExtractExperience ==
    /\ epc = "start"
    /\ inferred' = extract_experience(text_blob(posting))
    /\ epc' = "extracted"
    /\ UNCHANGED <<pipelineVars, sessionVars, writerVars, lifeVars, posting, years>>

\* lines 69-92: the decision, then the four keys are assigned
Decision ==
    /\ epc = "extracted"
    /\ LET d == Decide(inferred, years)
       IN  posting' = [experience_min |-> inferred.min,
                       experience_max |-> inferred.max,
                       match |-> d.match, match_reason |-> d.reason] @@ posting
    /\ epc' = "enriched"
    /\ UNCHANGED <<pipelineVars, sessionVars, writerVars, lifeVars, inferred, years>>

NextEnrich == ExtractExperience \/ Decision

SpecEnrich == InitEnrich /\ [][NextEnrich]_vars

\* ------------- scrape_amazon_jobs, statement by statement, calls at once
\* An aggregate call awaits its amazon fetch, and every step of the fetch is
\* an await of asyncio.to_thread: another request served by the same event
\* loop, or the cycle in the scheduler's thread, runs its own fetch meanwhile.

\* amazon lines 17-21: selenium_utils is no module of the repository, the
\* import raises and the fallback is taken
SELENIUM_START_LOCK == None

\* line 112: if SELENIUM_START_LOCK
Locking == SELENIUM_START_LOCK # None

\* a card of the result page: its h3.job-title, and its a.job-link href; a
\* broken card has no h3.job-title and find_element raises
Card(kind, title, href) == [kind |-> kind, title |-> title, href |-> href]

Pages ==
    { <<>>,
      <<Card("ok", <<>>, "a2"), Card("nolink", T_DEV, ""), Card("ok", T_SENIOR, "a1")>>,
      <<Card("broken", <<>>, ""), Card("ok", T_DEV, "a3")>> }

\* line 171
AmazonError(e) == <<[error |-> "Exception occurred", detail |-> e, company |-> "Amazon"]>>

\* the loop goes on for one attempt more than retries
OneMoreAttempt(a) == a <= Retries

\* line 84, for attempt in range(1, retries + 1): another attempt follows
\* attempt a
MoreAttempts(a) == a < Retries

\* driver.quit() is called after the return statement only
QuitOnReturnOnly(exit) == IF exit = "return" THEN "finally" ELSE "returned"

\* lines 168-176: however the try block is left, by the return of line 168
\* or by the handler of line 169, the finally clause runs next
AfterTry(exit) == "finally"

\* what a fetch never touches
notSessionVars == <<pipelineVars, enrichVars, writerVars, lifeVars>>

\* lines 105-116 up to the first attempt of line 84; with a lock, once the
\* lock is free
FetchStart(f) ==
    /\ fpc[f] = "idle"
    /\ IF Locking THEN holder = 0 /\ holder' = f ELSE UNCHANGED holder
    /\ attempts' = [attempts EXCEPT ![f] = 1]
    /\ fpc' = [fpc EXCEPT ![f] = "launch"]
    /\ UNCHANGED <<notSessionVars, last_exc, drivers, cards, card_idx, found, result>>

\* lines 87-88: webdriver.Chrome returns the driver; the lock, if any, is
\* released when the async with block is left
LaunchSucceeds(f) ==
    /\ fpc[f] = "launch"
    /\ drivers' = [drivers EXCEPT ![f] = "open"]
    /\ holder' = IF Locking THEN 0 ELSE holder
    /\ attempts' = [attempts EXCEPT ![f] = 0]
    /\ last_exc' = [last_exc EXCEPT ![f] = 0]
    /\ fpc' = [fpc EXCEPT ![f] = "get"]
    /\ UNCHANGED <<notSessionVars, cards, card_idx, found, result>>

\* lines 89-93: webdriver.Chrome raises, the exception is kept
LaunchFails(f) ==
    /\ fpc[f] = "launch"
    /\ last_exc' = [last_exc EXCEPT ![f] = attempts[f]]
    /\ fpc' = [fpc EXCEPT ![f] = "sleep"]
    /\ UNCHANGED <<notSessionVars, attempts, drivers, holder, cards, card_idx, found, result>>

\* line 94 is over and the loop has another attempt
BackoffRetry(f) ==
    /\ fpc[f] = "sleep" /\ MoreAttempts(attempts[f])
    /\ attempts' = [attempts EXCEPT ![f] = attempts[f] + 1]
    /\ fpc' = [fpc EXCEPT ![f] = "launch"]
    /\ UNCHANGED <<notSessionVars, last_exc, drivers, holder, cards, card_idx, found, result>>

\* line 94 is over and the loop is exhausted: line 95 raises last_exc, out
\* of _run and of scrape_amazon_jobs
BackoffRaise(f) ==
    /\ fpc[f] = "sleep" /\ ~MoreAttempts(attempts[f])
    /\ holder' = IF Locking THEN 0 ELSE holder
    /\ fpc' = [fpc EXCEPT ![f] = "raised"]
    /\ UNCHANGED <<notSessionVars, attempts, last_exc, drivers, cards, card_idx, found, result>>

\* line 121: driver.get(url) returns
Navigate(f) ==
    /\ fpc[f] = "get"
    /\ fpc' = [fpc EXCEPT ![f] = "wait"]
    /\ UNCHANGED <<notSessionVars, attempts, last_exc, drivers, holder, cards, card_idx, found, result>>

\* the try block is left through the handler of lines 169-171
TryFails(f, e) ==
    /\ result' = [result EXCEPT ![f] = AmazonError(e)]
    /\ fpc' = [fpc EXCEPT ![f] = AfterTry("except")]
    /\ UNCHANGED <<notSessionVars, attempts, last_exc, drivers, holder, cards, card_idx, found>>

\* line 121 raises
NavigateFails(f) == fpc[f] = "get" /\ TryFails(f, "e")

\* lines 124-130: the tiles are there, or the wait times out and the handler
\* of line 129 logs it; line 132 follows either way
WaitTiles(f) ==
    /\ fpc[f] = "wait"
    /\ fpc' = [fpc EXCEPT ![f] = "find"]
    /\ UNCHANGED <<notSessionVars, attempts, last_exc, drivers, holder, cards, card_idx, found, result>>

\* lines 132-137: find_elements returns the cards
FindCards(f) ==
    /\ fpc[f] = "find"
    /\ \E pg \in Pages : cards' = [cards EXCEPT ![f] = pg]
    /\ card_idx' = [card_idx EXCEPT ![f] = 1]
    /\ fpc' = [fpc EXCEPT ![f] = "parse"]
    /\ UNCHANGED <<notSessionVars, attempts, last_exc, drivers, holder, found, result>>

\* line 132 raises
FindCardsFails(f) == fpc[f] = "find" /\ TryFails(f, "no such window")

\* lines 138-165 for one card: a card that cannot be read is logged (line
\* 165), a card without href is passed over (line 153), another card is
\* appended
ParseCard(f) ==
    /\ fpc[f] = "parse" /\ card_idx[f] <= Len(cards[f])
    /\ LET c == cards[f][card_idx[f]]
       IN  found' = [found EXCEPT ![f] =
                        IF c.kind = "broken" \/ c.href = "" THEN found[f]
                        ELSE Append(found[f], AmazonJob(c.title, c.href))]
    /\ card_idx' = [card_idx EXCEPT ![f] = card_idx[f] + 1]
    /\ UNCHANGED <<notSessionVars, fpc, attempts, last_exc, drivers, holder, cards, result>>

\* line 168
ReturnJobs(f) ==
    /\ fpc[f] = "parse" /\ card_idx[f] > Len(cards[f])
    /\ result' = [result EXCEPT ![f] = found[f]]
    /\ fpc' = [fpc EXCEPT ![f] = AfterTry("return")]
    /\ UNCHANGED <<notSessionVars, attempts, last_exc, drivers, holder, cards, card_idx, found>>

\* lines 172-174: driver.quit() returns, then _run returns
Quit(f) ==
    /\ fpc[f] = "finally"
    /\ drivers' = [drivers EXCEPT ![f] = "closed"]
    /\ fpc' = [fpc EXCEPT ![f] = "returned"]
    /\ UNCHANGED <<notSessionVars, attempts, last_exc, holder, cards, card_idx, found, result>>

\* lines 175-176: driver.quit() raises and the handler passes
QuitFails(f) ==
    /\ fpc[f] = "finally"
    /\ drivers' = [drivers EXCEPT ![f] = "quit_failed"]
    /\ fpc' = [fpc EXCEPT ![f] = "returned"]
    /\ UNCHANGED <<notSessionVars, attempts, last_exc, holder, cards, card_idx, found, result>>

NextSessions ==
    \E f \in Fetches :
        \/ FetchStart(f) \/ LaunchSucceeds(f) \/ LaunchFails(f)
        \/ BackoffRetry(f) \/ BackoffRaise(f)
        \/ Navigate(f) \/ NavigateFails(f) \/ WaitTiles(f)
        \/ FindCards(f) \/ FindCardsFails(f) \/ ParseCard(f) \/ ReturnJobs(f)
        \/ Quit(f) \/ QuitFails(f)

SpecSessions == Init /\ [][NextSessions]_vars

\* ------------------- save_jobs_to_db, calls at once on the one jobs table
\* The cycle runs save_jobs_to_db in the scheduler's thread while a request
\* runs it on the event loop: each call has its own session and transaction
\* (SessionLocal, database.py line 26) on the table of Job, whose apply_url
\* is unique; a transaction reads what is committed and what it wrote.

\* what the pipeline hands to save_jobs_to_db: the amazon list as
\* scrape_company saves it, and the real_jobs of calls that name the light
\* adapters in one order, in the other, and one of them twice
WriterBatches ==
    { <<AmazonJob(<<>>, "a2"), AmazonJob(T_SENIOR, "a1")>>,
      EnrichRealJobs(WithCompany("Google", <<Posting(T_INTERN, D_PLUS, "g1")>>)
                     \o WithCompany("Zoho", <<Posting(T_SENIOR, <<>>, "z1")>>)),
      EnrichRealJobs(WithCompany("Zoho", <<Posting(T_DEV, D_RANGE, "z1")>>)
                     \o WithCompany("Google", <<Posting(T_DEV, <<>>, "g1")>>)),
      EnrichRealJobs(WithCompany("Zoho", <<Posting(T_INTERN, <<>>, "z1")>>)
                     \o WithCompany("Zoho", <<Posting(T_INTERN, D_PLUS, "z1")>>)) }

\* the rows transaction w reads: its own, and the committed rows it has not
\* rewritten
Visible(w) == wtx[w] \cup { r \in db : \A o \in wtx[w] : o.id # r.id }

\* apply_url is not unique: a statement never waits for the row of another
\* transaction
NotUnique(w, u) == FALSE

\* jobs.py line 19, unique=True: a statement on apply_url u waits while
\* another open transaction has written a row of that apply_url
Blocked(w, u) == \E v \in Writers \ {w} : \E r \in wtx[v] : r.apply_url = u

\* what a call of save_jobs_to_db never touches
notWriterVars ==
    <<pc, callVars, taskVars, heavyVars, outVars, saveVars, schedVars,
      enrichVars, sessionVars, lifeVars>>

\* line 76: db = SessionLocal(), the transaction starts with the first
\* statement
WriterBegin(w) ==
    /\ wpc[w] = "idle"
    /\ \E b \in WriterBatches : wbatch' = [wbatch EXCEPT ![w] = b]
    /\ widx' = [widx EXCEPT ![w] = 1]
    /\ clock' = clock + 1
    /\ wnow' = [wnow EXCEPT ![w] = clock + 1]
    /\ wpc' = [wpc EXCEPT ![w] = "loop"]
    /\ UNCHANGED <<notWriterVars, db, idseq, wtx>>

\* lines 79-81
WriterSkip(w) ==
    /\ wpc[w] = "loop" /\ widx[w] <= Len(wbatch[w])
    /\ ~Storable(wbatch[w][widx[w]])
    /\ widx' = [widx EXCEPT ![w] = widx[w] + 1]
    /\ UNCHANGED <<notWriterVars, storeVars, wpc, wbatch, wtx, wnow>>

\* lines 83-109: the statement runs once no other transaction holds a row of
\* its apply_url
WriterExecute(w) ==
    /\ wpc[w] = "loop" /\ widx[w] <= Len(wbatch[w])
    /\ LET j == wbatch[w][widx[w]]
       IN  /\ Storable(j)
           /\ ~Blocked(w, j.apply_url)
           /\ LET after == Upsert(Visible(w), j, idseq + 1, wnow[w])
              IN  wtx' = [wtx EXCEPT ![w] =
                            { r \in wtx[w] : r.apply_url # j.apply_url }
                            \cup { r \in after : r.apply_url = j.apply_url }]
    /\ idseq' = idseq + 1
    /\ widx' = [widx EXCEPT ![w] = widx[w] + 1]
    /\ UNCHANGED <<notWriterVars, db, clock, wpc, wbatch, wnow>>

\* line 111, then the finally clause: the rows written replace the committed
\* rows of the same id
WriterCommit(w) ==
    /\ wpc[w] = "loop" /\ widx[w] > Len(wbatch[w])
    /\ db' = Commit(db, Visible(w))
    /\ wtx' = [wtx EXCEPT ![w] = {}]
    /\ wbatch' = [wbatch EXCEPT ![w] = <<>>]
    /\ widx' = [widx EXCEPT ![w] = 0]
    /\ wpc' = [wpc EXCEPT ![w] = "done"]
    /\ UNCHANGED <<notWriterVars, idseq, clock, wnow>>

\* line 107 or line 111 raises (the database ends a statement that waits in
\* a deadlock with an error): lines 112-116, rollback and close
WriterFails(w) ==
    /\ wpc[w] = "loop"
    /\ widx[w] <= Len(wbatch[w]) => Storable(wbatch[w][widx[w]])
    /\ db' = Rollback(db, Visible(w))
    /\ wtx' = [wtx EXCEPT ![w] = {}]
    /\ wbatch' = [wbatch EXCEPT ![w] = <<>>]
    /\ widx' = [widx EXCEPT ![w] = 0]
    /\ wpc' = [wpc EXCEPT ![w] = "done"]
    /\ UNCHANGED <<notWriterVars, idseq, clock, wnow>>

NextStore ==
    \E w \in Writers :
        \/ WriterBegin(w) \/ WriterSkip(w) \/ WriterExecute(w)
        \/ WriterCommit(w) \/ WriterFails(w)

SpecStore == Init /\ [][NextStore]_vars

\* --------------- start_scheduler and shutdown_scheduler, called at will
\* One process enters the lifespan more than once (each TestClient(app)
\* block of the tests does) and start_scheduler is also called directly
\* (test_scheduler_jobs), so the two functions are called in any order. A
\* scheduler _scheduler no longer names goes on existing as it was left.

\* what a call of the two functions never touches
notLifeVars ==
    <<pc, callVars, taskVars, heavyVars, outVars, storeVars, saveVars, loop,
      enrichVars, sessionVars, writerVars>>

\* every scheduler made so far
Schedulers == {scheduler} \cup { retired[k] : k \in DOMAIN retired }

\* scheduler.py lines 101-113
StartScheduler ==
    /\ lifecalls < MaxLifeCalls
    /\ scheduler' = start_scheduler(scheduler)
    /\ retired' = IF StartsNew(scheduler) /\ scheduler # NoScheduler
                  THEN Append(retired, scheduler) ELSE retired
    /\ lifecalls' = lifecalls + 1 /\ last_call' = "start"
    /\ UNCHANGED <<notLifeVars, fired>>

\* scheduler.py lines 116-121
ShutdownScheduler ==
    /\ lifecalls < MaxLifeCalls
    /\ scheduler' = shutdown_scheduler(scheduler)
    /\ lifecalls' = lifecalls + 1 /\ last_call' = "shutdown"
    /\ UNCHANGED <<notLifeVars, retired, fired>>

\* the cron trigger of line 109 fires in a scheduler that runs
CronFires ==
    /\ fired < MaxFired
    /\ \E s \in Schedulers : s.running /\ JOB_ID \in s.jobs
    /\ fired' = fired + 1
    /\ UNCHANGED <<notLifeVars, scheduler, retired, lifecalls, last_call>>

NextScheduler == StartScheduler \/ ShutdownScheduler \/ CronFires

SpecScheduler == Init /\ [][NextScheduler]_vars

\* ================================================================ claims
IsError(j) == "error" \in DOMAIN j /\ "title" \notin DOMAIN j
IsNote(j) == "note" \in DOMAIN j /\ "title" \notin DOMAIN j

\* an aggregate call that returned its batch to the caller
Returned == pc = "returned" /\ outcome = "ok" /\ ~Rejected(query)

\* the record of combined that comes from record j of an adapter's list
AsReturned(j) == IF IsRealJob(j) THEN EnrichJob(j, USER_YEARS) ELSE j

RECURSIVE SumLen(_, _)
SumLen(res, S) ==
    IF S = {} THEN 0
    ELSE LET i == Min(S) IN Len(res[i]) + SumLen(res, S \ {i})

\* C1: a request whose role and location are both empty or absent returns
\* exactly one note record, starts no scrape_company and no adapter whatever
\* the requested companies, enriches nothing and opens no transaction.
C1_DegenerateQueryRejected ==
    (caller = "api" /\ Falsy(query.role) /\ Falsy(query.location)) =>
        /\ pc = "returned" /\ outcome = "ok"
        /\ response = <<[note |-> "Please provide role or location"]>>
        /\ \A i \in Slots : status[i] = "pending"
        /\ combined = <<>>
        /\ db = db0 /\ closed /\ tx = {}

C1_Witness ==
    /\ caller = "api" /\ pc = "returned"
    /\ query.role = Absent /\ query.location = Absent
    /\ Len(companies) = 3
    /\ Len(response) = 1

\* C2: when exactly one heavy adapter of a call raises, the returned batch
\* holds exactly one error record for that company and every record every
\* other requested adapter returned, and every heavy adapter was started,
\* those after the failing one included.
C2_HeavyFailureIsolated ==
    (Returned /\ Cardinality({ i \in HeavySlots : status[i] = "failed" }) = 1) =>
        LET f == CHOOSE i \in HeavySlots : status[i] = "failed"
            c == companies[f]
        IN  /\ \A i \in Slots \ {f} : status[i] = "done"
            /\ Cardinality({ p \in DOMAIN combined :
                               IsError(combined[p]) /\ combined[p].company = c }) = 1
            /\ \A i \in Slots \ {f} : \A k \in DOMAIN taskRes[i] :
                   \E p \in DOMAIN combined : combined[p] = AsReturned(taskRes[i][k])
            /\ Len(combined) = 1 + SumLen(taskRes, Slots \ {f})

\* microsoft raised, amazon, requested after it, ran and its postings are in
\* the batch
C2_Witness ==
    /\ Returned /\ companies = <<"microsoft", "invalid", "Amazon">>
    /\ status = <<"failed", "done", "done">>
    /\ Len(taskRes[3]) = 2
    /\ Len(combined) = 4

\* C3 (as claimed): a failure raised by a light adapter never leaves
\* scrape_jobs_multi: the call returns its batch, with an error record for
\* the failing source and the records of every other adapter.
C3_LightFailureContained ==
    (pc = "returned" /\ ~Rejected(query)
        /\ \E i \in LightSlots : status[i] = "failed") =>
        /\ outcome = "ok"
        /\ \A i \in LightSlots : status[i] = "failed" =>
               \E p \in DOMAIN combined :
                   IsError(combined[p]) /\ Lower(combined[p].company) = Lower(companies[i])
        /\ \A i \in Slots : status[i] = "done" => \A k \in DOMAIN taskRes[i] :
               \E p \in DOMAIN combined : combined[p] = AsReturned(taskRes[i][k])

\* C4: the heavy adapters of a call run one at a time and in requested
\* order: at most one is in progress, and one is started only when every
\* heavy adapter requested before it has returned or failed.
C4_HeavySequential ==
    /\ Cardinality({ i \in HeavySlots : status[i] = "running" }) <= 1
    /\ \A i, j \in HeavySlots :
           (i < j /\ status[j] # "pending") => Finished(i)

C4_Witness ==
    \E i, j \in HeavySlots :
        i < j /\ status[i] = "failed" /\ status[j] = "running" /\ pc = "am_scrape"

\* C5: no heavy adapter of a call is started before every light adapter of
\* the call has completed.
C5_HeavyAfterLight ==
    \A i \in HeavySlots :
        status[i] # "pending" => \A l \in LightSlots : Finished(l)

\* the heavy adapter was requested first and still runs after the light one
C5_Witness ==
    \E i \in HeavySlots, l \in LightSlots :
        i < l /\ status[i] = "running" /\ status[l] = "done"

\* the requested company a record of the batch is attributed to
SlotOf(j) == CHOOSE i \in Slots : Lower(companies[i]) = Lower(j.company)

\* C6: in the returned batch every record of a light source precedes every
\* record of a heavy source, and within a class the records of a source
\* requested earlier precede those of a source requested later.
C6_LightThenHeavy ==
    Returned =>
        \A p, q \in DOMAIN combined : p < q =>
            LET a == combined[p]
                b == combined[q]
            IN  /\ ~(IsHeavy(a.company) /\ ~IsHeavy(b.company))
                /\ IsHeavy(a.company) = IsHeavy(b.company) => SlotOf(a) <= SlotOf(b)

C6_Witness ==
    /\ Returned /\ companies = <<"amazon", "zoho">>
    /\ Len(combined) = 4
    /\ combined[1].company = "Zoho" /\ combined[4].company = "Amazon"

\* C7: no stored row has an empty title or apply_url, whichever call of
\* save_jobs_to_db stored it, and a batch that commits stores every item
\* that has both, whatever items were skipped.
C7_NoInvalidRowStored ==
    /\ \A r \in db \cup tx : r.title # <<>> /\ r.apply_url # ""
    /\ (pc = "save_done" /\ ~saveFailed) =>
           \A k \in DOMAIN saveJobs : Storable(saveJobs[k]) =>
               \E r \in db : r.apply_url = saveJobs[k].apply_url

C7_Witness ==
    /\ pc = "save_done" /\ ~saveFailed /\ saveRet = "multi"
    /\ \E k \in DOMAIN saveJobs : saveJobs[k].apply_url = ""
    /\ \E k \in DOMAIN saveJobs : saveJobs[k].title = <<>>
    /\ \E r \in db : r.apply_url = "a1"
    /\ \E r \in db : r.apply_url = "g1"

\* the item of the batch that decides the row of url: the last one stored
LastFor(batch, url) ==
    LET ks == { k \in DOMAIN batch : Storable(batch[k]) /\ batch[k].apply_url = url }
    IN  batch[CHOOSE k \in ks : \A m \in ks : m <= k]

\* C8: once a batch has been committed, the table holds exactly one row per
\* apply_url of the batch, whose mutable fields are those of the batch, and
\* applying the same batch again leaves the table as it is.
C8_UpsertIdempotent ==
    (pc = "save_done" /\ ~saveFailed) =>
        /\ Applied(db, saveJobs, idseq, clock + 1) = db
        /\ \A k \in DOMAIN saveJobs : Storable(saveJobs[k]) =>
               LET url == saveJobs[k].apply_url
                   rows == { r \in db : r.apply_url = url }
               IN  /\ Cardinality(rows) = 1
                   /\ \A r \in rows :
                          [f \in DOMAIN Values(saveJobs[k]) |-> r[f]]
                              = Values(LastFor(saveJobs, url))

\* the batch of the cycle, committed right after scrape_jobs_multi had
\* committed the same postings
C8_Witness ==
    /\ pc = "save_done" /\ ~saveFailed /\ saveRet = "cycle"
    /\ Cardinality({ k \in DOMAIN saveJobs : Storable(saveJobs[k]) }) >= 2
    /\ Cardinality(db) >= 2
    /\ \A r \in db : r.created_at < clock

\* C9: an upsert of a posting whose apply_url is already stored gives every
\* mutable field of the row the posting's value, keeps the row's id and
\* created_at, and leaves every other row as it is.
C9_UpsertKeepsIdentity ==
    [][ (/\ pc = "save" /\ saveIdx <= Len(saveJobs) /\ saveIdx' = saveIdx + 1
         /\ Storable(saveJobs[saveIdx])
         /\ \E r \in tx : r.apply_url = saveJobs[saveIdx].apply_url) =>
        LET job == saveJobs[saveIdx]
            old == CHOOSE r \in tx : r.apply_url = job.apply_url
        IN  \E new \in tx' :
                /\ new.apply_url = job.apply_url
                /\ new.id = old.id /\ new.created_at = old.created_at
                /\ new.company = job.company /\ new.title = job.title
                /\ new.location = job.location
                /\ new.description = job.description
                /\ new.experience_min = Get(job, "experience_min", 0)
                /\ new.experience_max = Get(job, "experience_max", 0)
                /\ new.match = BoolToText(Get(job, "match", FALSE))
                /\ new.match_reason = Get(job, "match_reason", Reason("", 0, 0))
                /\ tx' \ {new} = tx \ {old} ]_vars

\* the row an earlier run stored for z1 now carries the title and the
\* enrichment of the posting seen in this run, under its first id and
\* created_at
C9_Witness ==
    /\ pc = "save_done" /\ ~saveFailed /\ clock > 1
    /\ \E r \in db :
           /\ r.apply_url = "z1" /\ r.id = 1 /\ r.created_at = 1
           /\ r.title = T_SENIOR /\ r.experience_min = None
           /\ r.match = "false"

\* C10: a batch whose statement or commit fails leaves the committed rows as
\* they were before the batch, closes the session and returns to the caller.
C10_BatchAllOrNothing ==
    [][ (pc = "save" /\ (pc' = "save" \/ saveFailed')) =>
        /\ db' = db
        /\ saveFailed' => (closed' /\ pc' = "save_done") ]_vars

\* the first item of the batch was executed, a later statement or the commit
\* failed, and no row of the first item is stored
C10_Witness ==
    /\ pc = "save_done" /\ saveFailed /\ closed
    /\ saveIdx >= 2 /\ Storable(saveJobs[1])
    /\ \A r \in db : r.apply_url # saveJobs[1].apply_url

\* what scrape_company handed to scrape_jobs_multi for slot i: its list, or
\* the error record of lines 59-61
HandedOver(i) ==
    IF status[i] = "failed"
    THEN ErrorRecord(companies[i],
                     IF Lower(companies[i]) = "microsoft"
                     THEN "cannot import name 'scrape_microsoft_jobs_async'"
                     ELSE "session not created")
    ELSE taskRes[i]

\* the enriched batch as a function of the adapters' outputs alone
ExpectedBatch ==
    LET order == SlotSeq(LightSlots) \o SlotSeq(HeavySlots)
    IN  EnrichRealJobs(Flatten([k \in 1..Len(order) |-> HandedOver(order[k])]))

\* C11: the batch scrape_jobs_multi returns is determined by the adapters'
\* outputs alone: the same enriched records in the same order whether the
\* statements and the commit of save_jobs_to_db succeeded or failed, both in
\* the response of a request and in what run_scraper goes on with.
C11_BatchUnaffectedBySave ==
    /\ (Returned /\ caller = "api") => response = Results(ExpectedBatch)
    /\ (caller = "cycle" /\ saveRet = "cycle") =>
           combined = EnrichValidJobs(ExpectedBatch)

\* the request was answered with enriched postings none of which is stored:
\* the save of the batch failed
C11_Witness ==
    /\ Returned /\ caller = "api"
    /\ response = ExpectedBatch
    /\ \E p \in DOMAIN response : Storable(response[p]) /\ "match" \in DOMAIN response[p]
    /\ \A p \in DOMAIN response : Storable(response[p]) =>
           \A r \in db : r.apply_url # response[p].apply_url

\* C12: a scheduled cycle never raises to the scheduler: however it ends
\* (no event loop, scrape_jobs_multi raising at the gather or at the
\* enrichment, a failed save, or normally) it ends caught or ok, its event
\* loop is not left open, and all along the scheduler runs with the daily
\* job registered.
C12_CycleNeverRaises ==
    caller = "cycle" =>
        /\ outcome # "raised"
        /\ scheduler.running /\ JOB_ID \in scheduler.jobs
        /\ pc = "returned" => (outcome \in {"ok", "caught"} /\ loop # "open")

\* the cycle ended at the enrichment: every adapter had returned or been
\* recorded, google with a title that is no str
C12_Witness ==
    /\ caller = "cycle" /\ pc = "returned" /\ outcome = "caught"
    /\ loop = "closed"
    /\ \A i \in LightSlots : status[i] = "done"
    /\ \A i \in HeavySlots : Finished(i)
    /\ scheduler = [running |-> TRUE, jobs |-> {JOB_ID}]

EnrichmentKeys == {"experience_min", "experience_max", "match", "match_reason"}

\* C13: in the batch of scrape_jobs_multi every record that passed the
\* filter of line 68 has the four enrichment keys, match a boolean and a
\* match_reason that is not empty, and every error or note record has none
\* of the four keys.
C13_EnrichedOrUntouched ==
    \A p \in DOMAIN combined :
        LET j == combined[p]
        IN  IF IsRealJob(j)
            THEN /\ EnrichmentKeys \subseteq DOMAIN j
                 /\ j.match \in BOOLEAN
                 /\ j.match_reason.msg # ""
                 /\ j.experience_min \in Int /\ j.experience_max \in Int
            ELSE /\ IsError(j) \/ IsNote(j)
                 /\ EnrichmentKeys \cap DOMAIN j = {}

\* a returned batch with a note, an error record and enriched postings, one
\* of them with a number of years and one without
C13_Witness ==
    /\ Returned
    /\ \E p \in DOMAIN combined : IsNote(combined[p])
    /\ \E p \in DOMAIN combined : IsError(combined[p])
    /\ \E p \in DOMAIN combined :
           IsRealJob(combined[p]) /\ combined[p].experience_min = 1
    /\ \E p \in DOMAIN combined :
           IsRealJob(combined[p]) /\ combined[p].experience_min = None
                /\ ~combined[p].match

\* ------------------------------------ claims on enrich_jobs_with_match
Blob == text_blob(posting)
Enriched == epc = "enriched"

\* C14 (as claimed): an enriched posting with an experience_min has it >= 0,
\* and with an experience_max as well has experience_max >= experience_min.
C14_BoundsOrdered ==
    (Enriched /\ posting.experience_min # None) =>
        /\ posting.experience_min >= 0
        /\ posting.experience_max # None =>
               posting.experience_max >= posting.experience_min

\* C15: a posting whose experience_min is known and greater than
\* user_years, and whose entry-level flag is not set, gets match false and
\* the reason that names both numbers, with or without an experience_max
\* and with or without senior keywords in its text.
C15_TooFewYearsNoMatch ==
    (Enriched /\ inferred.min # None /\ inferred.min > years
        /\ ~inferred.entry_level) =>
        /\ posting.match = FALSE
        /\ posting.match_reason =
               Reason("Requires {a}+ years; user has {b}", inferred.min, years)

\* a range and a senior keyword in the text, the minimum above user_years
C15_Witness ==
    /\ Enriched /\ ~inferred.entry_level
    /\ inferred.min > years /\ inferred.max # None
    /\ SENIORITY_RE(Blob) # {}
    /\ ~posting.match /\ posting.match_reason.a = inferred.min
    /\ posting.match_reason.b = years

\* C16: a posting whose entry-level flag is set gets match true and the
\* entry-level reason for every user_years >= 0, whatever numbers and
\* senior keywords its text holds.
C16_EntryLevelAlwaysMatches ==
    (Enriched /\ inferred.entry_level) =>
        /\ posting.match = TRUE
        /\ posting.match_reason = Reason("Entry-level / fresher role", 0, 0)

\* an entry-level posting asking for more years than the user has, with a
\* senior keyword
C16_Witness ==
    /\ Enriched /\ inferred.entry_level
    /\ inferred.min # None /\ inferred.min > years
    /\ SENIORITY_RE(Blob) # {}
    /\ posting.match

NumericMatches ==
    RANGE_RE(Blob) \cup OR_MORE_RE(Blob) \cup SINGLE_RE(Blob) \cup UP_TO_RE(Blob)

\* C17: the decision follows one precedence: the entry-level flag, then a
\* known minimum above user_years, then the senior flag with user_years <= 2,
\* otherwise a match; and the senior flag is set only when no numeric
\* pattern matched, so never together with a minimum or a maximum.
C17_FixedPrecedence ==
    Enriched =>
        /\ inferred.senior =>
               (NumericMatches = {} /\ inferred.min = None /\ inferred.max = None)
        /\ posting.match_reason.msg =
               IF inferred.entry_level THEN "Entry-level / fresher role"
               ELSE IF inferred.min # None /\ inferred.min > years
                    THEN "Requires {a}+ years; user has {b}"
               ELSE IF inferred.senior /\ years <= 2
                    THEN "Senior-level keywords detected"
               ELSE IF inferred.min = None
                    THEN "No explicit experience requirement found"
               ELSE IF inferred.max \in {None, 0}
                    THEN "Minimum {a} years - OK"
               ELSE "Matches range {a}-{b} years"
        /\ posting.match =
               (posting.match_reason.msg \notin
                    {"Requires {a}+ years; user has {b}",
                     "Senior-level keywords detected"})

\* the senior rule decides, at the largest user_years it applies to
C17_Witness ==
    /\ Enriched /\ inferred.senior /\ ~inferred.entry_level
    /\ years = 2
    /\ ~posting.match
    /\ posting.match_reason.msg = "Senior-level keywords detected"

\* C18: when the range pattern matches the text, experience_min and
\* experience_max are the two numbers of its first match, whatever or-more,
\* single or up-to pattern matches before or after it.
C18_RangeTakesPriority ==
    (epc \in {"extracted", "enriched"} /\ RANGE_RE(Blob) # {}) =>
        LET i == Min(RANGE_RE(Blob))
        IN  inferred.min = Blob[i].n /\ inferred.max = Blob[i + 2].n

\* an up-to phrase before the range and the range's numbers returned
C18_Witness ==
    /\ Enriched /\ RANGE_RE(Blob) # {}
    /\ \E k \in UP_TO_RE(Blob) \cup OR_MORE_RE(Blob) : k < Min(RANGE_RE(Blob))
    /\ posting.experience_min = 3 /\ posting.experience_max = 75

\* C19 (as claimed): no experience_min and no experience_max of an enriched
\* posting lies outside 0..60.
C19_BoundsPlausible ==
    Enriched =>
        /\ posting.experience_min \in {None} \cup 0..60
        /\ posting.experience_max \in {None} \cup 0..60

\* a list an adapter may hand over: postings only (possibly none), or one
\* error record, or one note
WellFormed(list) ==
    \/ \A k \in DOMAIN list : IsRealJob(list[k])
    \/ Len(list) = 1 /\ (IsError(list[1]) \/ IsNote(list[1]))

\* C20 (as claimed): no call of an adapter through scrape_company ends with
\* an exception reaching scrape_jobs_multi, neither for a light source nor
\* when the browser session cannot be created nor when the adapter's entry
\* point cannot be imported; every call returns a well-formed list.
C20_AdapterNeverRaises ==
    \A i \in Slots :
        /\ status[i] # "failed"
        /\ status[i] = "done" => WellFormed(taskRes[i])

\* a requested name that is the name of no adapter
Unknown(c) == Lower(c) \notin {"zoho", "google", "microsoft", "amazon"}

\* C21: a requested name that matches no adapter never has an adapter
\* started for it, its scrape_company returns the one error record carrying
\* the name as requested, the returned batch holds exactly that one record
\* under the name, without enrichment fields, no row of the table carries the
\* name, and a request of such names only returns normally with the table as
\* it was.
C21_UnknownSourceReported ==
    /\ \A i \in Slots : Unknown(companies[i]) =>
        LET rec == [company |-> companies[i], error |-> "Scraper not implemented"]
        IN  /\ status[i] \in {"pending", "done"}
            /\ status[i] = "done" => taskRes[i] = <<rec>>
            /\ Returned =>
                   /\ Cardinality({ p \in DOMAIN combined :
                                      /\ "company" \in DOMAIN combined[p]
                                      /\ combined[p].company = companies[i] }) = 1
                   /\ \E p \in DOMAIN combined : combined[p] = rec
            /\ \A r \in db \cup tx : r.company # companies[i]
    /\ (/\ pc = "returned" /\ ~Rejected(query) /\ companies # <<>>
        /\ \A i \in Slots : Unknown(companies[i])) =>
           outcome = "ok" /\ db = db0 /\ Len(response) = Len(companies)

C21_Witness ==
    /\ Returned /\ companies = <<"microsoft", "invalid", "Amazon">>
    /\ \E p \in DOMAIN combined : combined[p].company = "invalid"
    /\ \E r \in db : r.apply_url = "a1" /\ r.match = "false"

\* C22: when an aggregate call that names google, zoho, microsoft and amazon
\* with a role has returned, every record of its batch has a company field
\* and each of Google, Zoho, Microsoft and Amazon is the company of at least
\* one record.
C22_EverySourceAttributed ==
    (/\ Returned /\ ~Falsy(query.role)
     /\ { Lower(companies[i]) : i \in Slots } = {"google", "zoho", "microsoft", "amazon"}) =>
        /\ \A p \in DOMAIN combined : "company" \in DOMAIN combined[p]
        /\ \A name \in {"Google", "Zoho", "Microsoft", "Amazon"} :
               \E p \in DOMAIN combined : combined[p].company = name

\* a fetch is creating its session: between the entry of
\* _create_driver_with_retry and its return or raise
Creating(f) == fpc[f] \in {"launch", "sleep"}

\* C23: at most one fetch is creating its session at any time, whichever
\* aggregate calls the fetches belong to, and the startup lock is held by no
\* fetch that is not creating its session.
C23_CreationSerialised ==
    /\ Cardinality({ f \in Fetches : Creating(f) }) <= 1
    /\ \A f \in Fetches : holder = f => Creating(f)

\* the statements of the try block of _run
InTry(f) == fpc[f] \in {"get", "wait", "find", "parse"}

\* C24: in every step of a fetch, the attempt number stays within 1..3; an
\* attempt either yields the session, after which the fetch goes on to the
\* navigation and never launches again, or fails and is followed by the
\* backoff; the backoff is followed by the next attempt or, after the third
\* failure, by the raise of that third failure with no session created; the
\* navigation runs once and every card is parsed once, in order.
C24_BoundedCreationRetry ==
    [][\A f \in Fetches :
        /\ attempts'[f] \in 0..Retries
        /\ (fpc[f] = "launch" /\ fpc'[f] # "launch") =>
               \/ fpc'[f] = "get" /\ drivers'[f] = "open"
               \/ fpc'[f] = "sleep" /\ last_exc'[f] = attempts[f] /\ drivers'[f] = "none"
        /\ (fpc[f] = "sleep" /\ fpc'[f] # "sleep") =>
               \/ fpc'[f] = "launch" /\ attempts'[f] = attempts[f] + 1
               \/ /\ fpc'[f] = "raised" /\ attempts[f] = Retries
                  /\ last_exc'[f] = Retries /\ drivers'[f] = "none"
        /\ fpc'[f] = "raised" => fpc[f] \in {"sleep", "raised"}
        /\ drivers[f] # "none" => ~Creating(f)'
        /\ fpc'[f] = "get" => fpc[f] \in {"launch", "get"}
        /\ (fpc[f] \in {"finally", "returned", "raised"}) => ~InTry(f)'
        /\ (fpc[f] = "parse" /\ card_idx'[f] # card_idx[f]) =>
               card_idx'[f] = card_idx[f] + 1 /\ cards'[f] = cards[f]
    ]_vars

C24_Witness ==
    /\ fpc[1] = "raised" /\ last_exc[1] = Retries
    /\ fpc[2] = "parse" /\ drivers[2] = "open" /\ card_idx[2] = 2

\* driver.quit() has been called on the session of fetch f
QuitCalled(f) == drivers[f] \in {"closed", "quit_failed"}

\* C25: a session is open only between its creation and the finally clause
\* of its fetch; a fetch that has returned, with the jobs or with the error
\* list, has called quit on its session, also when quit itself raised, and
\* a fetch whose creation raised has no session.
C25_SessionAlwaysClosed ==
    \A f \in Fetches :
        /\ drivers[f] = "open" <=> (InTry(f) \/ fpc[f] = "finally")
        /\ fpc[f] = "returned" => QuitCalled(f)
        /\ fpc[f] = "raised" => drivers[f] = "none"
        /\ drivers[f] = "quit_failed" => fpc[f] = "returned"

C25_Witness ==
    /\ fpc[1] = "returned" /\ result[1] = AmazonError("e")
    /\ drivers[1] = "quit_failed"
    /\ fpc[2] = "returned" /\ result[2] = <<AmazonJob(T_DEV, "a3")>>
    /\ drivers[2] = "closed"

\* slot i is the task of a light adapter
LightFetch(i) == Lower(companies[i]) \in {"zoho", "google"}

\* C26: the light fetches of a call overlap: tasks that suspend at their
\* network request are all started before any of them resumes, so no light
\* fetch has completed while another light fetch of the call has not begun.
C26_LightFetchesOverlap ==
    \A i, j \in Slots :
        (LightFetch(i) /\ LightFetch(j) /\ Finished(i)) => status[j] # "pending"

\* C27: no posting in the list an adapter returned has an empty apply_url.
C27_NoPostingWithoutLink ==
    \A i \in Slots : \A k \in DOMAIN taskRes[i] :
        IsRealJob(taskRes[i][k]) => Get(taskRes[i][k], "apply_url", "") # ""

\* C28: no row of the table, committed or written by the open transaction,
\* holds the values save_jobs_to_db falls back to for a posting that was not
\* enriched: match false with an empty match_reason.
C28_NoUnenrichedRow ==
    \A r \in db \cup tx :
        ~(r.match = BoolToText(FALSE) /\ r.match_reason = Reason("", 0, 0))

\* every job a writer can hand to the table, and the job of the row the
\* table can start with
WrittenJobs ==
    { b[k] : b \in WriterBatches, k \in 1..2 }
    \cup { EnrichJob(Posting(T_DEV, D_RANGE, "z1") @@ [company |-> "Zoho"], USER_YEARS) }

\* C29: in the committed table, and in what every open transaction reads,
\* no two rows have the same apply_url, whatever the interleaving of the
\* writers and also when a batch names an apply_url twice; and the eight
\* values of a row are those of one job handed to save_jobs_to_db, all of
\* them.
C29_OneRowPerApplyUrl ==
    /\ \A w \in Writers : \A r1, r2 \in db \cup Visible(w) :
           r1.apply_url = r2.apply_url => r1.id = r2.id
    /\ \A r1, r2 \in db : r1.id = r2.id => r1 = r2
    /\ \A w \in Writers : \A r \in db \cup wtx[w] :
           \E j \in WrittenJobs :
               /\ j.apply_url = r.apply_url
               /\ [k \in DOMAIN Values(j) |-> r[k]] = Values(j)

C29_Witness ==
    /\ \E r \in wtx[1] : r.apply_url = "z1" /\ r.title = T_INTERN
    /\ widx[1] = 2 /\ wbatch[1][2].apply_url = "z1"
    /\ wpc[2] = "loop" /\ widx[2] = 1
    /\ wbatch[2][1].apply_url = "z1" /\ Blocked(2, "z1")
    /\ \E r \in db : r.apply_url = "z1" /\ r.title = T_DEV

\* record after is record before with nothing but enrichment keys set
OnlyEnriched(before, after) ==
    /\ DOMAIN after \ EnrichmentKeys = DOMAIN before \ EnrichmentKeys
    /\ \A k \in DOMAIN before \ EnrichmentKeys : after[k] = before[k]

\* C30: the step of scrape_jobs_multi that enriches leaves the batch with
\* the records of the combined lists, as many and in the same order, each
\* with its company, title, location, description and apply_url as they
\* were and only enrichment keys added; the step of run_scraper that
\* enriches the returned batch again leaves every record as it was.
C30_EnrichmentFrame ==
    [][/\ (pc = "heavy" /\ pc' = "save") =>
           LET raw == Combined(non_selenium_results, selenium_results)
           IN  /\ Len(combined') = Len(raw)
               /\ \A p \in DOMAIN raw : OnlyEnriched(raw[p], combined'[p])
       /\ (pc = "save_done" /\ saveRet = "multi" /\ pc' = "save") =>
           combined' = combined
    ]_vars

C30_Witness ==
    /\ pc = "save" /\ saveRet = "cycle"
    /\ \E p \in DOMAIN combined :
           /\ IsRealJob(combined[p]) /\ combined[p].apply_url = "g1"
           /\ combined[p].experience_min = 1 /\ combined[p].description = D_PLUS
    /\ \E p \in DOMAIN combined : IsError(combined[p])
    /\ \E p \in DOMAIN combined :
           IsRealJob(combined[p]) /\ combined[p].apply_url = "a1"

\* how many of the schedulers made so far run
RunningSchedulers ==
    (IF scheduler.running THEN 1 ELSE 0)
    + Cardinality({ k \in DOMAIN retired : retired[k].running })

\* C31: after every call of start_scheduler or shutdown_scheduler, in
\* whatever order they come, at most one of the schedulers made so far runs
\* and the scheduler that runs has the one job daily_midnight_scrape; a call
\* of start_scheduler that finds the scheduler running and a call of
\* shutdown_scheduler that finds none running change nothing.
C31_OneSchedulerOneJob ==
    [][/\ RunningSchedulers' <= 1
       /\ scheduler'.running => scheduler'.jobs = {JOB_ID}
       /\ (lifecalls' # lifecalls /\ last_call' = "start" /\ scheduler.running) =>
              scheduler' = scheduler /\ retired' = retired
       /\ (lifecalls' # lifecalls /\ last_call' = "shutdown" /\ ~scheduler.running) =>
              scheduler' = scheduler /\ retired' = retired
    ]_vars

C31_Witness ==
    /\ lifecalls = 6 /\ last_call = "start"
    /\ Len(retired) = 2 /\ scheduler.running /\ fired = 1

\* C32: the results of a request that was answered are never empty: the
\* note of the degenerate query, or, when scrape_jobs_multi returned an
\* empty batch, the one note record "No jobs found", or else the batch of
\* scrape_jobs_multi, record for record.
C32_ResultsNeverEmpty ==
    (caller = "api" /\ pc = "returned" /\ outcome = "ok") =>
        /\ response # <<>>
        /\ ~Rejected(query) =>
               IF combined = <<>>
               THEN response = <<[note |-> "No jobs found"]>>
               ELSE response = combined

C32_Witness ==
    /\ Returned /\ caller = "api" /\ companies = <<>>
    /\ combined = <<>> /\ Len(response) = 1 /\ IsNote(response[1])

\* C33: every aggregate call that was entered eventually returns its batch,
\* that very call and not a later one, every requested company having had
\* its scrape_company called.
C33_CallReturnsBatch ==
    \A n \in 1..MaxCalls :
        (pc = "gather" /\ calls = n) ~>
            (/\ pc = "returned" /\ calls = n /\ outcome = "ok"
             /\ \A i \in Slots : status[i] # "pending")

====
